---- MODULE Spec2Model ----
(***************************************************************************)
(* Model of internal/controller/topic/topic.go: the Topic adapter between  *)
(* a managed resource (cr) and a Kafka cluster's topic admin API.          *)
(*                                                                         *)
(* A Go `int` (64 bit) is held as two limbs, value = hi * 2^16 + lo with   *)
(* lo in 0..2^16-1, so that the int32(...) and int16(...) conversions of   *)
(* Create can be computed exactly.  Go slices are 0-based, sequences are   *)
(* 1-based: Go's x[0] is x[1] here.                                        *)
(***************************************************************************)
EXTENDS Integers, Sequences, FiniteSets, TLC

VARIABLES cr, cluster, client, reconcile, last

vars == <<cr, cluster, client, reconcile, last>>

----------------------------------------------------------------------------
(* Bounds *)

MaxPartitions == 2
MaxReplicas == 2

----------------------------------------------------------------------------
(* Go integers *)

W16 == 65536

GoInt(n) == [hi |-> n \div W16, lo |-> n % W16]

\* int == int comparison between a small value (a len()) and a Go int
IntEq(n, x) == x = GoInt(n)

\* int32(x): the low 32 bits, read as a signed number
Int32(x) ==
    LET h == x.hi % W16
        hs == IF h >= W16 \div 2 THEN h - W16 ELSE h
    IN  hs * W16 + x.lo

\* int16(x): the low 16 bits, read as a signed number
Int16(x) == IF x.lo >= W16 \div 2 THEN x.lo - W16 ELSE x.lo

----------------------------------------------------------------------------
(* Error messages *)

errNotTopic == "managed resource is not a Topic custom resource"
errTrackPCUsage == "cannot track ProviderConfig usage"
errGetPC == "cannot get ProviderConfig"
errGetCreds == "cannot get credentials"
errNewClient == "cannot create new Kafka client"

Nil == "nil"
UnknownTopicOrPartition == "UNKNOWN_TOPIC_OR_PARTITION"
OtherErr == "KAFKA_ERROR"

----------------------------------------------------------------------------
(* Topic identifiers and their String() form *)

ZeroID == 0
TopicIDs == {1, 2}

IDString(id) ==
    CASE id = 0 -> "AAAAAAAAAAAAAAAAAAAAAA"
      [] id = 1 -> "AAAAAAAAAAAAAAAAAAAAAQ"
      [] id = 2 -> "AAAAAAAAAAAAAAAAAAAAAg"

----------------------------------------------------------------------------
(* Values *)

SeqsUpTo(S, n) == UNION {[1..k -> S] : k \in 0..n}

NoTopic == [Err |-> Nil, ID |-> ZeroID, Partitions |-> <<>>]
NoCluster == [present |-> FALSE, ID |-> ZeroID, Partitions |-> <<>>]
NoList == [callErr |-> FALSE, present |-> FALSE, t |-> NoTopic]
NoResp == [callErr |-> FALSE, resps |-> <<>>]

\* managed.ExternalObservation / ExternalCreation / ExternalUpdate and error
Result(err, exists, upToDate, panicked) ==
    [err |-> err, ResourceExists |-> exists, ResourceUpToDate |-> upToDate,
     panicked |-> panicked]

EmptyResult == Result(Nil, FALSE, FALSE, FALSE)

NotTopic == Result(errNotTopic, FALSE, FALSE, FALSE)

Call(api, p, r) == [api |-> api, partitions |-> p, rf |-> r]

\* desired values the model draws for spec.forProvider
SpecPartitions ==
    {GoInt(n) : n \in 0..MaxPartitions}
        \cup {[hi |-> W16, lo |-> 2], [hi |-> W16 - 1, lo |-> W16 - 1]}

SpecReplicationFactors ==
    {GoInt(n) : n \in 1..MaxReplicas}
        \cup {[hi |-> 0, lo |-> W16 - 1], [hi |-> 1, lo |-> 1]}

\* live topics: one replica count per partition
LivePartitions == SeqsUpTo(1..MaxReplicas, MaxPartitions) \ {<<>>}

----------------------------------------------------------------------------
(* The Kafka admin client (kadm) as seen from the adapter: the outcomes a  *)
(* call can have against the current cluster, and the cluster afterwards.  *)

\* c.kafkaClient.ListTopics(ctx, name)
ListTopics(cl) ==
    {[callErr |-> TRUE, present |-> FALSE, t |-> NoTopic]}
        \cup {[callErr |-> FALSE, present |-> TRUE,
               t |-> [Err |-> OtherErr, ID |-> ZeroID, Partitions |-> <<>>]]}
        \cup (IF cl.present
              THEN {[callErr |-> FALSE, present |-> TRUE,
                     t |-> [Err |-> Nil, ID |-> cl.ID,
                            Partitions |-> cl.Partitions]]}
              ELSE {[callErr |-> FALSE, present |-> FALSE, t |-> NoTopic],
                    [callErr |-> FALSE, present |-> TRUE,
                     t |-> [Err |-> UnknownTopicOrPartition, ID |-> ZeroID,
                            Partitions |-> <<>>]]})

\* the partition counts / replication factors a broker accepts; -1 asks for
\* the broker's default, which the adapter does not know
Granted(n, max) == IF n = -1 THEN 1..max ELSE {n} \cap (1..max)

FailedResps ==
    {rs \in SeqsUpTo([Err : {Nil, OtherErr}, ID : {ZeroID}], 2) :
        ~(Len(rs) = 1 /\ rs[1].Err = Nil)}

\* c.kafkaClient.CreateTopics(ctx, p, r, nil, name)
CreateTopics(cl, p, r) ==
    {[callErr |-> TRUE, resps |-> <<>>, cluster |-> cl]}
        \cup {[callErr |-> FALSE, resps |-> rs, cluster |-> cl] :
                rs \in FailedResps}
        \cup (IF cl.present
              THEN {}
              ELSE {[callErr |-> FALSE,
                     resps |-> <<[Err |-> Nil, ID |-> id]>>,
                     cluster |-> [present |-> TRUE, ID |-> id,
                                  Partitions |-> [i \in 1..pp |-> rr]]] :
                      id \in TopicIDs,
                      pp \in Granted(p, MaxPartitions),
                      rr \in Granted(r, MaxReplicas)})

\* c.kafkaClient.DeleteTopics(ctx, name)
DeleteTopics(cl) ==
    {[callErr |-> TRUE, resps |-> <<>>, cluster |-> cl]}
        \cup {[callErr |-> FALSE, resps |-> rs, cluster |-> cl] :
                rs \in FailedResps}
        \cup (IF cl.present
              THEN {[callErr |-> FALSE,
                     resps |-> <<[Err |-> Nil, ID |-> ZeroID]>>,
                     cluster |-> NoCluster]}
              ELSE {})

----------------------------------------------------------------------------
(* newKafkaClient *)

newKafkaClient(parseOK, newOK) ==
    IF ~parseOK THEN [svc |-> FALSE, err |-> "cannot parse credentials"]
    ELSE IF ~newOK THEN [svc |-> FALSE, err |-> OtherErr]
    ELSE [svc |-> TRUE, err |-> Nil]

----------------------------------------------------------------------------
(* connector.Connect *)

Step(name, ok) == [step |-> name, ok |-> ok]

ConnectOrder == <<"Track", "GetProviderConfig", "ExtractCredentials", "NewClient">>

\* Connect with the Track error ignored
ConnectNoTrackCheck(isTopic, trackOK, getOK, credsOK, parseOK, newOK) ==
    IF ~isTopic
    THEN [steps |-> <<>>, client |-> FALSE, err |-> errNotTopic]
    ELSE LET s1 == <<Step("Track", trackOK)>>
             s2 == Append(s1, Step("GetProviderConfig", getOK))
             s3 == Append(s2, Step("ExtractCredentials", credsOK))
             svc == newKafkaClient(parseOK, newOK)
             s4 == Append(s3, Step("NewClient", svc.svc))
         IN  IF ~getOK THEN [steps |-> s2, client |-> FALSE, err |-> errGetPC]
             ELSE IF ~credsOK
                  THEN [steps |-> s3, client |-> FALSE, err |-> errGetCreds]
             ELSE IF svc.err # Nil
                  THEN [steps |-> s4, client |-> FALSE, err |-> errNewClient]
             ELSE [steps |-> s4, client |-> TRUE, err |-> Nil]

ConnectFn(isTopic, trackOK, getOK, credsOK, parseOK, newOK) ==
    IF ~isTopic
    THEN [steps |-> <<>>, client |-> FALSE, err |-> errNotTopic]
    ELSE LET s1 == <<Step("Track", trackOK)>>
             s2 == Append(s1, Step("GetProviderConfig", getOK))
             s3 == Append(s2, Step("ExtractCredentials", credsOK))
             svc == newKafkaClient(parseOK, newOK)
             s4 == Append(s3, Step("NewClient", svc.svc))
         IN  IF ~trackOK
             THEN [steps |-> s1, client |-> FALSE, err |-> errTrackPCUsage]
             ELSE IF ~getOK
                  THEN [steps |-> s2, client |-> FALSE, err |-> errGetPC]
             ELSE IF ~credsOK
                  THEN [steps |-> s3, client |-> FALSE, err |-> errGetCreds]
             ELSE IF svc.err # Nil
                  THEN [steps |-> s4, client |-> FALSE, err |-> errNewClient]
             ELSE [steps |-> s4, client |-> TRUE, err |-> Nil]

----------------------------------------------------------------------------
(* external.Observe *)

\* lines 185-191: upToDate
UpToDate(t, spec) ==
    LET a == IF ~IntEq(Len(t.Partitions), spec.Partitions) THEN FALSE ELSE TRUE
    IN  IF Len(t.Partitions) > 0
           /\ ~IntEq(t.Partitions[1], spec.ReplicationFactor)
        THEN FALSE ELSE a

SetObserved(c, t) ==
    [c EXCEPT !.status = [ID |-> IDString(t.ID), Available |-> TRUE]]

\* Observe with "unknown topic or partition" reported as an error
ObserveUnknownIsError(isTopic, c, l) ==
    IF ~isTopic
    THEN [cr |-> c, res |-> NotTopic]
    ELSE IF l.callErr
    THEN [cr |-> c, res |-> Result(OtherErr, FALSE, FALSE, FALSE)]
    ELSE IF ~l.present
    THEN [cr |-> c, res |-> Result(Nil, FALSE, FALSE, FALSE)]
    ELSE IF l.t.Err = UnknownTopicOrPartition
    THEN [cr |-> c, res |-> Result(l.t.Err, FALSE, FALSE, FALSE)]
    ELSE [cr |-> SetObserved(c, l.t),
          res |-> Result(Nil, TRUE, UpToDate(l.t, c.spec), FALSE)]

\* Observe with the status written before the existence check
ObserveEagerStatus(isTopic, c, l) ==
    IF ~isTopic
    THEN [cr |-> c, res |-> NotTopic]
    ELSE IF l.callErr
    THEN [cr |-> c, res |-> Result(OtherErr, FALSE, FALSE, FALSE)]
    ELSE IF ~l.present \/ l.t.Err = UnknownTopicOrPartition
    THEN [cr |-> SetObserved(c, l.t),
          res |-> Result(Nil, FALSE, FALSE, FALSE)]
    ELSE [cr |-> SetObserved(c, l.t),
          res |-> Result(Nil, TRUE, UpToDate(l.t, c.spec), FALSE)]

ObserveFn(isTopic, c, l) ==
    IF ~isTopic
    THEN [cr |-> c, res |-> NotTopic]
    ELSE IF l.callErr
    THEN [cr |-> c, res |-> Result(OtherErr, FALSE, FALSE, FALSE)]
    ELSE IF ~l.present \/ l.t.Err = UnknownTopicOrPartition
    THEN [cr |-> c, res |-> Result(Nil, FALSE, FALSE, FALSE)]
    ELSE [cr |-> SetObserved(c, l.t),
          res |-> Result(Nil, TRUE, UpToDate(l.t, c.spec), FALSE)]

----------------------------------------------------------------------------
(* external.Create *)

\* the arguments of the CreateTopics call (line 205)
CreateArgs(spec) ==
    Call("CreateTopics", Int32(spec.Partitions), Int16(spec.ReplicationFactor))

\* Create with the status ID written before the response error is checked
CreateEagerStatus(c, o) ==
    IF o.callErr
    THEN [cr |-> c, res |-> Result(OtherErr, FALSE, FALSE, FALSE)]
    ELSE IF Len(o.resps) # 1
    THEN [cr |-> c,
          res |-> Result("unexpected number of createTopicResponse",
                         FALSE, FALSE, FALSE)]
    ELSE IF o.resps[1].Err # Nil
    THEN [cr |-> [c EXCEPT !.status.ID = IDString(o.resps[1].ID)],
          res |-> Result("create failed", FALSE, FALSE, FALSE)]
    ELSE [cr |-> [c EXCEPT !.status.ID = IDString(o.resps[1].ID)],
          res |-> EmptyResult]

\* lines 206-218: what Create does with the outcome of the call
CreateFn(c, o) ==
    IF o.callErr
    THEN [cr |-> c, res |-> Result(OtherErr, FALSE, FALSE, FALSE)]
    ELSE IF Len(o.resps) # 1
    THEN [cr |-> c,
          res |-> Result("unexpected number of createTopicResponse",
                         FALSE, FALSE, FALSE)]
    ELSE IF o.resps[1].Err # Nil
    THEN [cr |-> c, res |-> Result("create failed", FALSE, FALSE, FALSE)]
    ELSE [cr |-> [c EXCEPT !.status.ID = IDString(o.resps[1].ID)],
          res |-> EmptyResult]

----------------------------------------------------------------------------
(* external.Update *)

\* Update reporting that it is unsupported
UpdateUnsupported(c) ==
    [cr |-> c, calls |-> <<>>,
     res |-> Result("topic updates not supported yet!", FALSE, FALSE, FALSE)]

UpdateFn(c) == [cr |-> c, calls |-> <<>>, res |-> EmptyResult]

----------------------------------------------------------------------------
(* external.Delete *)

\* lines 234-244: the errors built at 238 and 241 are dropped, and resp[0]
\* is read whatever the length
DeleteFn(o) ==
    IF o.callErr THEN Result(OtherErr, FALSE, FALSE, FALSE)
    ELSE IF Len(o.resps) = 0 THEN Result(Nil, FALSE, FALSE, TRUE)
    ELSE EmptyResult

----------------------------------------------------------------------------------------------------------------------------------------
(* State machine.  cr is the Topic resource; every method receives a       *)
(* resource.Managed that is either cr (isTopic) or some other kind.        *)

Last(op, isTopic, l, o, calls, steps, res) ==
    [op |-> op, isTopic |-> isTopic, list |-> l, callErr |-> o.callErr,
     resps |-> o.resps, calls |-> calls, steps |-> steps, pre |-> cr,
     phase |-> reconcile, res |-> res]

Init ==
    /\ cr \in [spec : [Partitions : SpecPartitions,
                       ReplicationFactor : SpecReplicationFactors],
               status : {[ID |-> "", Available |-> FALSE]}]
    /\ cluster \in {NoCluster}
                     \cup [present : {TRUE}, ID : TopicIDs,
                           Partitions : LivePartitions]
    /\ client = FALSE
    /\ reconcile = "idle"
    /\ last = [op |-> "none", isTopic |-> TRUE, list |-> NoList,
               callErr |-> FALSE, resps |-> <<>>, calls |-> <<>>,
               steps |-> <<>>, pre |-> cr, phase |-> "idle",
               res |-> EmptyResult]

\* what Connect can return, over the outcomes of the calls it makes
ConnectOutcomes ==
    {[isTopic |-> isTopic,
      r |-> ConnectFn(isTopic, trackOK, getOK, credsOK, parseOK, newOK)] :
        isTopic \in BOOLEAN, trackOK \in BOOLEAN, getOK \in BOOLEAN,
        credsOK \in BOOLEAN, parseOK \in BOOLEAN, newOK \in BOOLEAN}

Connect ==
    \E c \in ConnectOutcomes :
        /\ client' = c.r.client
        /\ last' = Last("Connect", c.isTopic, NoList, NoResp, <<>>, c.r.steps,
                        Result(c.r.err, FALSE, FALSE, FALSE))
        /\ UNCHANGED <<cr, cluster, reconcile>>

Observe ==
    /\ client
    /\ \E isTopic \in BOOLEAN :
        \E l \in IF isTopic THEN ListTopics(cluster) ELSE {NoList} :
            LET r == ObserveFn(isTopic, cr, l)
            IN  /\ cr' = r.cr
                /\ reconcile' = IF isTopic /\ r.res.err = Nil
                                   /\ ~r.res.ResourceExists
                                THEN "absent" ELSE "idle"
                /\ last' = Last("Observe", isTopic, l, NoResp,
                                IF isTopic THEN <<Call("ListTopics", 0, 0)>>
                                ELSE <<>>,
                                <<>>, r.res)
                /\ UNCHANGED <<cluster, client>>

Create ==
    /\ client
    /\ \/ /\ last' = Last("Create", FALSE, NoList, NoResp, <<>>, <<>>,
                          NotTopic)
          /\ reconcile' = "idle"
          /\ UNCHANGED <<cr, cluster, client>>
       \/ LET a == CreateArgs(cr.spec)
          IN  \E o \in CreateTopics(cluster, a.partitions, a.rf) :
                  LET r == CreateFn(cr, o)
                  IN  /\ cr' = r.cr
                      /\ cluster' = o.cluster
                      /\ reconcile' = IF reconcile = "absent"
                                         /\ r.res.err = Nil
                                      THEN "created" ELSE "idle"
                      /\ last' = Last("Create", TRUE, NoList, o, <<a>>, <<>>,
                                      r.res)
                      /\ UNCHANGED client

Update ==
    /\ client
    /\ \E isTopic \in BOOLEAN :
        LET r == UpdateFn(cr)
        IN  /\ cr' = r.cr
            /\ reconcile' = "idle"
            /\ last' = Last("Update", isTopic, NoList, NoResp, r.calls, <<>>,
                            r.res)
            /\ UNCHANGED <<cluster, client>>

Delete ==
    /\ client
    /\ \/ /\ last' = Last("Delete", FALSE, NoList, NoResp, <<>>, <<>>,
                          NotTopic)
          /\ reconcile' = "idle"
          /\ UNCHANGED <<cr, cluster, client>>
       \/ \E o \in DeleteTopics(cluster) :
              /\ cluster' = o.cluster
              /\ reconcile' = "idle"
              /\ last' = Last("Delete", TRUE, NoList, o,
                              <<Call("DeleteTopics", 0, 0)>>, <<>>,
                              DeleteFn(o))
              /\ UNCHANGED <<cr, client>>

Next == Connect \/ Observe \/ Create \/ Update \/ Delete

Spec == Init /\ [][Next]_vars

----------------------------------------------------------------------------
(* Properties *)

Live == [Err |-> Nil, ID |-> cluster.ID, Partitions |-> cluster.Partitions]

\* the listing of the last Observe found the topic (no unknown-topic error)
Found ==
    /\ last.op = "Observe" /\ last.isTopic
    /\ ~last.list.callErr /\ last.list.present
    /\ last.list.t.Err # UnknownTopicOrPartition

\* C1: for every topic found in the listing, if the live partition count
\* differs from spec.Partitions or the replica count of any live partition
\* differs from spec.ReplicationFactor, Observe returns ResourceUpToDate = false.
C1_AnyMismatchNotUpToDate ==
    LET P == last.list.t.Partitions
    IN  (Found /\ (\/ ~IntEq(Len(P), cr.spec.Partitions)
                   \/ \E i \in 1..Len(P) :
                        ~IntEq(P[i], cr.spec.ReplicationFactor)))
            => last.res.ResourceUpToDate = FALSE

\* C2: for every response list of the delete call, Delete does not panic, and
\* it returns a non-nil error whenever a per-response error is non-nil or the
\* response count is not exactly one.
C2_DeletePropagatesErrors ==
    (last.op = "Delete" /\ last.isTopic /\ ~last.callErr)
        => /\ ~last.res.panicked
           /\ (\/ Len(last.resps) # 1
               \/ \E i \in 1..Len(last.resps) : last.resps[i].Err # Nil)
                 => last.res.err # Nil

CreateFailed ==
    \/ last.callErr
    \/ Len(last.resps) # 1
    \/ last.resps[1].Err # Nil

\* C3: when the create call fails (call-level error, response count other
\* than one, or an error on the single response) Create returns a non-nil
\* error and leaves the status as it was; the status ID is written only on
\* the success path and then equals the ID of the single response.
C3_CreateFailureKeepsStatus ==
    (last.op = "Create" /\ last.isTopic)
        => /\ CreateFailed => (last.res.err # Nil /\ cr.status = last.pre.status)
           /\ cr.status # last.pre.status => ~CreateFailed
           /\ ~CreateFailed
                => /\ last.res.err = Nil
                   /\ cr.status.ID = IDString(last.resps[1].ID)
                   /\ cr.status.Available = last.pre.status.Available

C3_Witness ==
    /\ last.op = "Create" /\ last.isTopic
    /\ ~last.callErr /\ Len(last.resps) = 1 /\ last.resps[1].Err # Nil
    /\ last.pre.status.ID # ""
    /\ last.res.err # Nil

\* the listing of the last Observe succeeded and shows the topic as absent
ListedAbsent ==
    /\ last.op = "Observe" /\ last.isTopic /\ ~last.list.callErr
    /\ (~last.list.present \/ last.list.t.Err = UnknownTopicOrPartition)

\* C4: when the listing succeeds but the topic is absent from it or carries
\* "unknown topic or partition", Observe returns ResourceExists = false with
\* a nil error and sets neither the Available condition nor the status ID.
C4_UnknownTopicIsAbsent ==
    ListedAbsent
        => /\ last.res.ResourceExists = FALSE
           /\ last.res.err = Nil
           /\ cr.status = last.pre.status

C4_Witness ==
    /\ ListedAbsent
    /\ last.list.present
    /\ last.pre.status.Available
    /\ ~last.res.ResourceExists

\* C5: when the topic's listing entry carries a non-nil error other than
\* "unknown topic or partition", Observe returns a non-nil error and neither
\* reports the resource as existing nor marks it Available.
C5_PerTopicErrorPropagates ==
    (Found /\ last.list.t.Err # Nil)
        => /\ last.res.err # Nil
           /\ ~last.res.ResourceExists
           /\ cr.status = last.pre.status

NotUpToDateLive == cluster.present /\ ~UpToDate(Live, cr.spec)

C7_ConnectOrder ==
    last.op = "Connect"
        => LET s == last.steps
           IN  /\ Len(s) <= Len(ConnectOrder)
               /\ \A i \in 1..Len(s) : s[i].step = ConnectOrder[i]
               /\ \A i \in 1..Len(s) : ~s[i].ok => i = Len(s)
               /\ (\E i \in 1..Len(s) : ~s[i].ok)
                    => (~client /\ last.res.err # Nil)
               /\ client <=> (/\ Len(s) = Len(ConnectOrder)
                              /\ \A i \in 1..Len(s) : s[i].ok)
               /\ client <=> last.res.err = Nil

C7_Witness ==
    /\ last.op = "Connect"
    /\ Len(last.steps) = 3
    /\ ~last.steps[3].ok
    /\ ~client

\* C8: from an absent topic, Observe (ResourceExists = false), Create
\* (succeeds, the cluster creates the topic with the requested partition
\* count and replication factor), Observe: the second Observe returns
\* ResourceExists = true and ResourceUpToDate = true, and the status ID
\* written by Create equals the one written by that Observe.
C8_ReconcileConverges ==
    LET a == CreateArgs(cr.spec)
        P == cluster.Partitions
    IN  (/\ last.op = "Observe" /\ last.isTopic /\ last.phase = "created"
         /\ ~last.list.callErr /\ last.list.present /\ last.list.t = Live
         /\ Len(P) = a.partitions
         /\ \A i \in 1..Len(P) : P[i] = a.rf)
            => /\ last.res.ResourceExists
               /\ last.res.ResourceUpToDate
               /\ last.pre.status.ID = cr.status.ID

\* C9: the partition count and replication factor passed to the create call
\* equal spec.Partitions and spec.ReplicationFactor (the conversions to 32
\* and 16 bits never change the value).
C9_CreateArgsEqualSpec ==
    (last.op = "Create" /\ last.isTopic)
        => /\ IntEq(last.calls[1].partitions, last.pre.spec.Partitions)
           /\ IntEq(last.calls[1].rf, last.pre.spec.ReplicationFactor)

====
